---- MODULE Spec2Model ----
(***************************************************************************)
(* The Elastic adapter (src/src/Elastic.ts, and its earlier revision       *)
(* src/unnamed/part_000) over a search store.                              *)
(*                                                                         *)
(* The adapter holds no state but its client; the state is the store's:    *)
(* the indices, the documents as a realtime get sees them (docs) and as a  *)
(* search sees them (visible: the documents as of the last refresh).  Each *)
(* adapter method is one action; what the caller saw of the last call      *)
(* (the requests sent, the value returned or the error raised) is kept in  *)
(* `last`.  Strings that the code inspects (index names, field values,     *)
(* queries) are sequences of one-character strings.                        *)
(***************************************************************************)
EXTENDS Naturals, Sequences, FiniteSets

VARIABLES connected, indices, docs, visible, freeIds, last

vars == <<connected, indices, docs, visible, freeIds, last>>
store == <<indices, docs, visible, freeIds>>

----------------------------------------------------------------------------
(* Bounds *)

\* Ids the store may still hand out during a run.
MaxNew == 2

\* The store's page of hits when a search names no size.
DefaultSize == 10

PageIds == 2 .. (DefaultSize + 1)
PoolIds == {1} \cup ((DefaultSize + 2) .. (DefaultSize + MaxNew))
AllIds == 1 .. (DefaultSize + MaxNew)
NoId == 0

----------------------------------------------------------------------------
(* Values *)

Str(cs) == [arr |-> FALSE, items |-> <<cs>>]
Arr(ss) == [arr |-> TRUE, items |-> ss]
Missing == [arr |-> FALSE, items |-> <<>>]

S_aa == <<"a", "a">>
S_aabb == <<"a", "a", " ", "b", "b">>
S_aaa == <<"a", "a", "a">>
S_cc == <<"c", "c">>

Fields == {"keyName", "other"}

\* type Body = { [key: string]: string | string[] }
Body(k, o) == [keyName |-> k, other |-> o]
EmptyBody == Body(Missing, Missing)

Bodies ==
  { Body(Str(S_aa), Missing), Body(Str(S_aabb), Missing),
    Body(Str(S_aaa), Missing), Body(Str(S_aa), Arr(<<S_aa, S_cc>>)) }

PartialBodies == { Body(Str(S_cc), Missing) }

Queries == {S_aa, S_aabb}

Types == {"typeName", "otherType"}

\* what the callers of the model create: every body in one type, one in the other
Creations ==
  {<<"typeName", b>> : b \in Bodies} \cup {<<"otherType", Body(Str(S_aa), Missing)>>}

IdxGood == <<"i", "-", "1">>
IdxUnderscore == <<"i", "_", "1">>
IdxCamel == <<"i", "X">>
IndexNames == {IdxGood, IdxUnderscore, IdxCamel, <<>>}
KnownNames == {IdxGood, IdxUnderscore}

NoDoc == [index |-> <<>>, type |-> "", source |-> EmptyBody]

----------------------------------------------------------------------------
(* Errors *)

Err(n, t, b) == [name |-> n, text |-> t, body |-> b]
NoErr == Err("", <<>>, "none")
\* transport failure: the client's ConnectionError has no body
ConnectionError == Err("ConnectionError", <<"connect ECONNREFUSED">>, "none")
\* 404 whose body says found: false (get or delete of a missing document)
NotFoundError == Err("ResponseError", <<"Not Found">>, "found:false")
\* other store rejections: a body without a found flag
IndexNotFoundError == Err("ResponseError", <<"index_not_found_exception">>, "error")
DocumentMissingError == Err("ResponseError", <<"document_missing_exception">>, "error")
InvalidIndexNameError == Err("ResponseError", <<"invalid_index_name_exception">>, "error")
\* reading e.body.found of an error without a body
TypeError == Err("TypeError", <<"Cannot read properties of undefined (reading 'found')">>, "none")

\* String(e) for an Error: name + ": " + message
ErrToString(e) == <<e.name, ": ">> \o e.text

AdapterError(t) == Err("Error", t, "none")
HostInvalid == AdapterError(<<"Host invalid">>)
OnlySnakeCase == AdapterError(<<"Only snake-case allowed">>)
FailedToCreate == AdapterError(<<"Failed to create document">>)
Prefix == <<"Cannot establish elasticsearch connection: ">>
\* a slip: the cause's message alone, e.message for String(e)
CannotEstablishMessageOnly(e) == AdapterError(Prefix \o e.text)

CannotEstablish(e) == AdapterError(Prefix \o ErrToString(e))

----------------------------------------------------------------------------
(* What the caller saw of a call *)

\* cause: the error the client raised for the last request sent, if any;
\* err: the error the adapter raised to its caller, if any.
Call(op) ==
  [op |-> op, host |-> "", port |-> "", index |-> <<>>, type |-> "", id |-> NoId,
   body |-> EmptyBody, field |-> "", query |-> <<>>, requests |-> <<>>,
   out |-> "return", err |-> NoErr, cause |-> NoErr,
   rid |-> NoId, rdoc |-> EmptyBody, absent |-> FALSE, rflag |-> FALSE,
   rlist |-> <<>>]

\* the adapter throws an error of its own
Throw(c, e) == [c EXCEPT !.out = "throw", !.err = e]

\* an awaited request rejects and nothing catches it
Propagate(c, e) == [c EXCEPT !.out = "throw", !.err = e, !.cause = e]

----------------------------------------------------------------------------
(* The store *)

\* the store's own rule for index names: lower case, not empty, no leading - or _
StoreAcceptsName(name) ==
  /\ Len(name) > 0
  /\ \A i \in 1 .. Len(name) : name[i] # "X"
  /\ name[1] \notin {"-", "_"}

\* indices.refresh, or the refresh flag of a write: searches see the index as it is
Refreshed(v, d, index) ==
  [id \in AllIds |->
     IF d[id] # NoDoc /\ d[id].index = index THEN d[id]
     ELSE IF v[id] # NoDoc /\ v[id].index = index THEN NoDoc
     ELSE v[id]]

\* a get is realtime: it reads the documents as they are
Found(index, type, id) ==
  /\ id \in AllIds
  /\ docs[id] # NoDoc
  /\ docs[id].index = index
  /\ docs[id].type = type

\* a search reads the documents as of the last refresh
Searchable(index, type) ==
  {id \in AllIds : visible[id] # NoDoc /\ visible[id].index = index
                      /\ visible[id].type = type}

\* the store indexes the document under a fresh id of its own choice
StoreIndex(index, type, body, id, refresh) ==
  /\ id \in freeIds
  /\ freeIds' = freeIds \ {id}
  /\ indices' = indices \cup {index}
  /\ docs' = [docs EXCEPT ![id] = [index |-> index, type |-> type, source |-> body]]
  /\ visible' = IF refresh THEN Refreshed(visible, docs', index) ELSE visible

\* a partial update: the fields of the doc given replace the stored ones
Merge(old, new) ==
  [f \in Fields |-> IF new[f] = Missing THEN old[f] ELSE new[f]]

StoreUpdate(index, id, body, refresh) ==
  /\ docs' = [docs EXCEPT ![id].source = Merge(docs[id].source, body)]
  /\ visible' = IF refresh THEN Refreshed(visible, docs', index) ELSE visible
  /\ UNCHANGED <<indices, freeIds>>

StoreDelete(index, id, refresh) ==
  /\ docs' = [docs EXCEPT ![id] = NoDoc]
  /\ visible' = IF refresh THEN Refreshed(visible, docs', index) ELSE visible
  /\ UNCHANGED <<indices, freeIds>>

StoreDeleteIndex(index) ==
  /\ indices' = indices \ {index}
  /\ docs' = [id \in AllIds |-> IF docs[id].index = index THEN NoDoc ELSE docs[id]]
  /\ visible' = [id \in AllIds |->
                   IF visible[id].index = index THEN NoDoc ELSE visible[id]]
  /\ UNCHANGED freeIds

Init ==
  /\ connected = FALSE
  /\ indices = {}
  /\ docs = [id \in AllIds |-> NoDoc]
  /\ visible = [id \in AllIds |-> NoDoc]
  /\ freeIds = PoolIds
  /\ last = Call("none")

----------------------------------------------------------------------------
(* establish, close *)

\* typeof host, typeof port
Args == {"string", "undefined"}

InfoRequests == <<"info">>

establish(host, port) ==
  LET c == [Call("establish") EXCEPT !.host = host, !.port = port] IN
  IF host # "string" \/ port # "string"
  THEN /\ last' = Throw(c, HostInvalid)
       /\ UNCHANGED <<connected, store>>
  ELSE \E up \in BOOLEAN :
         LET c1 == [c EXCEPT !.requests = InfoRequests] IN
         /\ IF up
            THEN /\ connected' = TRUE
                 /\ last' = [c1 EXCEPT !.rflag = TRUE]
            ELSE /\ connected' = connected
                 /\ last' = [Throw(c1, CannotEstablish(ConnectionError))
                               EXCEPT !.cause = ConnectionError]
         /\ UNCHANGED store

close ==
  /\ connected
  /\ connected' = FALSE
  /\ last' = [Call("close") EXCEPT !.requests = <<"close">>]
  /\ UNCHANGED store

----------------------------------------------------------------------------
(* validateIndex, createDocument *)

IndexRequest == "index?refresh=true"
RefreshRequest == "indices.refresh"

LowerOrDigitOrHyphen == {"i", "a", "b", "c", "1", "-"}

\* null !== name.match(/^[a-z0-9\-]+$/)
validateIndex(name) ==
  /\ Len(name) > 0
  /\ \A i \in 1 .. Len(name) : name[i] \in LowerOrDigitOrHyphen

\* a slip: the response is looked at before the refresh is sent
AfterIndexResponseChecksFirst(c, id, created, refreshed) ==
  IF ~created THEN Throw([c EXCEPT !.requests = <<IndexRequest>>], FailedToCreate)
  ELSE LET c2 == [c EXCEPT !.requests = <<IndexRequest, RefreshRequest>>] IN
       IF ~refreshed THEN Propagate(c2, ConnectionError) ELSE [c2 EXCEPT !.rid = id]

\* after the index request has resolved: await this.refresh(index), and only
\* then the look at the response
AfterIndexResponse(c, id, created, refreshed) ==
  LET c2 == [c EXCEPT !.requests = <<IndexRequest, RefreshRequest>>] IN
  IF ~refreshed THEN Propagate(c2, ConnectionError)
  ELSE IF ~created THEN Throw(c2, FailedToCreate)
  ELSE [c2 EXCEPT !.rid = id]

\* <<the response says created with 201, the refresh request got through>>
IndexResponses == {<<TRUE, TRUE>>, <<FALSE, TRUE>>, <<TRUE, FALSE>>}

SendIndex(c, index, type, body) ==
  \/ /\ last' = Propagate([c EXCEPT !.requests = <<IndexRequest>>], ConnectionError)
     /\ UNCHANGED store
  \/ /\ ~StoreAcceptsName(index)
     /\ last' = Propagate([c EXCEPT !.requests = <<IndexRequest>>], InvalidIndexNameError)
     /\ UNCHANGED store
  \/ /\ StoreAcceptsName(index)
     /\ \E id \in freeIds, r \in IndexResponses :
          /\ StoreIndex(index, type, body, id, TRUE)
          /\ last' = AfterIndexResponse(c, id, r[1], r[2])

\* a slip: the document is indexed without the caller's type
createDocumentUntyped(index, type, body) ==
  LET c == [Call("createDocument") EXCEPT !.index = index, !.type = type, !.body = body] IN
  /\ connected
  /\ UNCHANGED connected
  /\ IF ~validateIndex(index)
     THEN /\ last' = Throw(c, OnlySnakeCase)
          /\ UNCHANGED store
     ELSE SendIndex(c, index, "_doc", body)

createDocument(index, type, body) ==
  LET c == [Call("createDocument") EXCEPT !.index = index, !.type = type, !.body = body] IN
  /\ connected
  /\ UNCHANGED connected
  /\ IF ~validateIndex(index)
     THEN /\ last' = Throw(c, OnlySnakeCase)
          /\ UNCHANGED store
     ELSE SendIndex(c, index, type, body)

\* the earlier revision sends the request without looking at the name
createDocument_000(index, type, body) ==
  LET c == [Call("createDocument") EXCEPT !.index = index, !.type = type, !.body = body] IN
  /\ connected
  /\ UNCHANGED connected
  /\ SendIndex(c, index, type, body)

----------------------------------------------------------------------------
(* getById *)

\* catch (e) { if (e.body.found === false) return undefined; throw e; }
getByIdCatch(c, e) ==
  IF e.body = "none" THEN [Throw(c, TypeError) EXCEPT !.cause = e]
  ELSE IF e.body = "found:false" THEN [c EXCEPT !.absent = TRUE, !.cause = e]
  ELSE Propagate(c, e)

GetCall(index, type, id) ==
  [Call("getById") EXCEPT !.index = index, !.type = type, !.id = id,
                          !.requests = <<"get">>]

\* what getById gives when the get request reaches the store
getByIdAnswer(index, type, id) ==
  LET c == GetCall(index, type, id) IN
  IF index \notin indices THEN getByIdCatch(c, IndexNotFoundError)
  ELSE IF ~Found(index, type, id) THEN getByIdCatch(c, NotFoundError)
  ELSE [c EXCEPT !.rdoc = docs[id].source]

getById(index, type, id) ==
  /\ connected
  /\ UNCHANGED <<connected, store>>
  /\ \/ last' = getByIdCatch(GetCall(index, type, id), ConnectionError)
     \/ last' = getByIdAnswer(index, type, id)

----------------------------------------------------------------------------
(* updateDocument *)

UpdateRequest == "update?refresh=true"

\* a slip: the error is thrown again
updateDocumentRethrows(c, e) == Propagate(c, e)

\* catch (e) { return false; }
updateDocumentCatch(c, e) == [c EXCEPT !.rflag = FALSE, !.cause = e]

UpdateCall(index, type, id, body) ==
  [Call("updateDocument") EXCEPT !.index = index, !.type = type, !.id = id,
                                 !.body = body, !.requests = <<UpdateRequest>>]

updateDocument(index, type, id, body) ==
  LET c == UpdateCall(index, type, id, body) IN
  /\ connected
  /\ UNCHANGED connected
  /\ \/ /\ last' = updateDocumentCatch(c, ConnectionError)
        /\ UNCHANGED store
     \/ /\ index \notin indices
        /\ last' = updateDocumentCatch(c, IndexNotFoundError)
        /\ UNCHANGED store
     \/ /\ index \in indices
        /\ ~Found(index, type, id)
        /\ last' = updateDocumentCatch(c, DocumentMissingError)
        /\ UNCHANGED store
     \/ /\ Found(index, type, id)
        /\ StoreUpdate(index, id, body, TRUE)
        /\ last' = [c EXCEPT !.rflag = TRUE]

----------------------------------------------------------------------------
(* getAll, searchByField *)

\* sort: [{ _uid: { order: "asc" } }], within one type: ascending id; the hit
\* at place i is the one with i hits at or below it
SortAsc(ids) ==
  [i \in 1 .. Cardinality(ids) |->
     CHOOSE x \in ids : Cardinality({y \in ids : y <= x}) = i]

\* the search body names no size: the store returns its default page of hits
Page(hits) ==
  IF Len(hits) <= DefaultSize THEN hits ELSE SubSeq(hits, 1, DefaultSize)

\* result.body.hits.hits.map((h) => h._source)
Sources(hits) == [i \in 1 .. Len(hits) |-> visible[hits[i]].source]

RECURSIVE Split(_, _, _)
\* the analyzer of a text field: the words of a string, split at spaces
Split(s, i, cur) ==
  IF i > Len(s) THEN (IF cur = <<>> THEN {} ELSE {cur})
  ELSE IF s[i] = " "
       THEN (IF cur = <<>> THEN {} ELSE {cur}) \cup Split(s, i + 1, <<>>)
       ELSE Split(s, i + 1, Append(cur, s[i]))

Tokens(s) == Split(s, 1, <<>>)

Analyzed(value) == UNION {Tokens(value.items[i]) : i \in 1 .. Len(value.items)}

Contains(t, q) ==
  \E i \in 1 .. Len(t) : i + Len(q) - 1 <= Len(t) /\ SubSeq(t, i, i + Len(q) - 1) = q

\* regexp: { [field]: `.*${query}.*` }: one of the field's words contains the query
RegexpQuery(source, field, query) ==
  \E t \in Analyzed(source[field]) : Contains(t, query)

\* a slip: the earlier revision's query is kept
MatchQueryAsRegexp(source, field, query) == RegexpQuery(source, field, query)

\* match: { [field]: query }: the field has one of the query's words
MatchQuery(source, field, query) ==
  Analyzed(source[field]) \cap Tokens(query) # {}

\* what a search gives when the request reaches the store
SearchAnswer(c, index, hits) ==
  IF index \notin indices THEN Propagate(c, IndexNotFoundError)
  ELSE [c EXCEPT !.rlist = Sources(Page(hits))]

GetAllCall(index, type) ==
  [Call("getAll") EXCEPT !.index = index, !.type = type, !.requests = <<"search">>]

getAllAnswer(index, type) ==
  SearchAnswer(GetAllCall(index, type), index, SortAsc(Searchable(index, type)))

getAll(index, type) ==
  /\ connected
  /\ UNCHANGED <<connected, store>>
  /\ \/ last' = Propagate(GetAllCall(index, type), ConnectionError)
     \/ last' = getAllAnswer(index, type)

SearchCall(index, type, field, query) ==
  [Call("searchByField") EXCEPT !.index = index, !.type = type, !.field = field,
                                !.query = query, !.requests = <<"search">>]

searchByFieldAnswer(index, type, field, query) ==
  SearchAnswer(SearchCall(index, type, field, query), index,
               SortAsc({id \in Searchable(index, type) :
                          MatchQuery(visible[id].source, field, query)}))

searchByField(index, type, field, query) ==
  /\ connected
  /\ UNCHANGED <<connected, store>>
  /\ \/ last' = Propagate(SearchCall(index, type, field, query), ConnectionError)
     \/ last' = searchByFieldAnswer(index, type, field, query)

searchByField_000(index, type, field, query) ==
  /\ connected
  /\ UNCHANGED <<connected, store>>
  /\ \/ last' = Propagate(SearchCall(index, type, field, query), ConnectionError)
     \/ last' = SearchAnswer(SearchCall(index, type, field, query), index,
                             SortAsc({id \in Searchable(index, type) :
                                        RegexpQuery(visible[id].source, field, query)}))

----------------------------------------------------------------------------
(* deleteDocument, deleteIndex, refresh *)

DeleteRequest == "delete?refresh=true"

\* await this.client.delete(...): nothing is caught, no status is ignored
SendDelete(c, index, type, id, refresh) ==
  \/ /\ last' = Propagate(c, ConnectionError)
     /\ UNCHANGED store
  \/ /\ index \notin indices
     /\ last' = Propagate(c, IndexNotFoundError)
     /\ UNCHANGED store
  \/ /\ index \in indices
     /\ ~Found(index, type, id)
     /\ last' = Propagate(c, NotFoundError)
     /\ UNCHANGED store
  \/ /\ Found(index, type, id)
     /\ StoreDelete(index, id, refresh)
     /\ last' = c

DeleteCall(index, type, id, request) ==
  [Call("deleteDocument") EXCEPT !.index = index, !.type = type, !.id = id,
                                 !.requests = <<request>>]

\* the earlier revision's delete asks for no refresh
deleteDocument_000(index, type, id) ==
  /\ connected
  /\ UNCHANGED connected
  /\ SendDelete(DeleteCall(index, type, id, "delete"), index, type, id, FALSE)

\* a slip: the refresh flag is left out
deleteDocumentUnrefreshed(index, type, id) == deleteDocument_000(index, type, id)

deleteDocument(index, type, id) ==
  /\ connected
  /\ UNCHANGED connected
  /\ SendDelete(DeleteCall(index, type, id, DeleteRequest), index, type, id, TRUE)

\* indices.delete({ index }, { ignore: [404] })
deleteIndex(index) ==
  LET c == [Call("deleteIndex") EXCEPT !.index = index,
                                       !.requests = <<"indices.delete">>] IN
  /\ connected
  /\ UNCHANGED connected
  /\ \/ /\ last' = Propagate(c, ConnectionError)
        /\ UNCHANGED store
     \/ /\ last' = [c EXCEPT !.rflag = TRUE]
        /\ StoreDeleteIndex(index)

refresh(index) ==
  LET c == [Call("refresh") EXCEPT !.index = index,
                                   !.requests = <<RefreshRequest>>] IN
  /\ connected
  /\ UNCHANGED <<connected, indices, docs, freeIds>>
  /\ \/ /\ last' = Propagate(c, ConnectionError)
        /\ UNCHANGED visible
     \/ /\ index \notin indices
        /\ last' = Propagate(c, IndexNotFoundError)
        /\ UNCHANGED visible
     \/ /\ index \in indices
        /\ last' = c
        /\ visible' = Refreshed(visible, docs, index)

\* the store refreshes an index by itself every refresh interval
StoreRefresh(index) ==
  /\ index \in indices
  /\ visible' = Refreshed(visible, docs, index)
  /\ UNCHANGED <<connected, indices, docs, freeIds, last>>

----------------------------------------------------------------------------
(* The specifications *)

\* The calls the model's callers make.  Documents are looked up, updated and
\* deleted in the collection that exists and, once, in one that does not.
Targets ==
  ({IdxGood} \X Types \X PoolIds) \cup {<<IdxUnderscore, "typeName", 1>>}

Next ==
  \/ \E host \in Args, port \in Args : establish(host, port)
  \/ close
  \/ \E tb \in Creations : createDocument(IdxGood, tb[1], tb[2])
  \/ \E index \in IndexNames \ {IdxGood} :
       createDocument(index, "typeName", Body(Str(S_aa), Missing))
  \/ \E t \in Targets : getById(t[1], t[2], t[3])
  \/ \E t \in Targets, body \in PartialBodies : updateDocument(t[1], t[2], t[3], body)
  \/ \E type \in Types : getAll(IdxGood, type)
  \/ \E type \in Types, field \in Fields, query \in Queries :
       searchByField(IdxGood, type, field, query)
  \/ \E t \in Targets : deleteDocument(t[1], t[2], t[3])
  \/ \E index \in KnownNames : deleteIndex(index)
  \/ refresh(IdxGood)
  \/ StoreRefresh(IdxGood)

\* src/src/Elastic.ts, from construction
Spec == Init /\ [][Next]_vars

\* The earlier revision (src/unnamed/part_000), from construction.
Next_000 ==
  \/ \E host \in Args, port \in Args : establish(host, port)
  \/ close
  \/ \E index \in IndexNames : createDocument_000(index, "typeName", Body(Str(S_aa), Missing))
  \/ createDocument_000(IdxGood, "typeName", Body(Str(S_aaa), Missing))
  \/ \E index \in KnownNames, id \in PoolIds : getById(index, "typeName", id)
  \/ \E id \in PoolIds, body \in PartialBodies : updateDocument(IdxGood, "typeName", id, body)
  \/ \E index \in KnownNames : getAll(index, "typeName")
  \/ \E index \in KnownNames : searchByField_000(index, "typeName", "keyName", S_aa)
  \/ \E index \in KnownNames, id \in PoolIds : deleteDocument_000(index, "typeName", id)
  \/ \E index \in KnownNames : deleteIndex(index)
  \/ \E index \in KnownNames : refresh(index)
  \/ \E index \in KnownNames : StoreRefresh(index)

Spec_000 == Init /\ [][Next_000]_vars

\* src/src/Elastic.ts, from the state after DefaultSize documents were created,
\* one after the other, in one (collection, type) that was empty, the store
\* having given them the ids of PageIds in ascending order.
PageBody(id) == IF id % 2 = 0 THEN Body(Str(S_aa), Missing) ELSE Body(Str(S_aabb), Missing)

PageDocs ==
  [id \in AllIds |->
     IF id \in PageIds
     THEN [index |-> IdxGood, type |-> "typeName", source |-> PageBody(id)]
     ELSE NoDoc]

InitPage ==
  /\ connected = TRUE
  /\ indices = {IdxGood}
  /\ docs = PageDocs
  /\ visible = PageDocs
  /\ freeIds = PoolIds
  /\ last = [Call("createDocument") EXCEPT
               !.index = IdxGood, !.type = "typeName",
               !.body = PageBody(DefaultSize + 1),
               !.requests = <<IndexRequest, RefreshRequest>>,
               !.rid = DefaultSize + 1]

PageTargets == PoolIds \cup {DefaultSize + 1}

NextPage ==
  \/ establish("string", "string")
  \/ close
  \/ \E body \in {Body(Str(S_aa), Missing), Body(Str(S_aaa), Missing)} :
       createDocument(IdxGood, "typeName", body)
  \/ \E id \in PageTargets : getById(IdxGood, "typeName", id)
  \/ \E id \in PageTargets, body \in PartialBodies :
       updateDocument(IdxGood, "typeName", id, body)
  \/ getAll(IdxGood, "typeName")
  \/ \E query \in Queries : searchByField(IdxGood, "typeName", "keyName", query)
  \/ \E id \in PageTargets : deleteDocument(IdxGood, "typeName", id)
  \/ refresh(IdxGood)
  \/ StoreRefresh(IdxGood)

SpecPage == InitPage /\ [][NextPage]_vars

----------------------------------------------------------------------------
(* The claims *)

Mutations == {"createDocument", "updateDocument", "deleteDocument"}

\* C1: when createDocument returns an id, a getById of that id issued right
\* after it returns the mapping that was submitted, field for field.
C1_RoundTrip ==
  (last.op = "createDocument" /\ last.out = "return") =>
    LET r == getByIdAnswer(last.index, last.type, last.rid) IN
      /\ last.rid # NoId
      /\ r.out = "return"
      /\ ~r.absent
      /\ r.rdoc = last.body

C1_Witness ==
  /\ last.op = "createDocument"
  /\ last.out = "return"
  /\ last.body = Body(Str(S_aa), Arr(<<S_aa, S_cc>>))

\* C2: createDocument with a name that does not match the pattern fails with
\* the InvalidName error before any request is sent.
C2_ValidatedBeforeAnyRequest ==
  (last.op = "createDocument" /\ ~validateIndex(last.index)) =>
    /\ last.out = "throw"
    /\ last.err = OnlySnakeCase
    /\ last.requests = <<>>

\* C3: getById returns the stored mapping when the get succeeds, the absent
\* result when the failure carries the not-found flag, and raises the client's
\* own error, unchanged, for every other failure.
C3_ThreeOutcomes ==
  last.op = "getById" =>
    \/ /\ last.cause = NoErr
       /\ last.out = "return"
       /\ ~last.absent
    \/ /\ last.cause.body = "found:false"
       /\ last.out = "return"
       /\ last.absent
    \/ /\ last.cause # NoErr
       /\ last.cause.body # "found:false"
       /\ last.out = "throw"
       /\ last.err = last.cause

\* C4: a deleteDocument that reaches the store completes without an error,
\* whether or not a document with that id existed.
C4_DeleteIdempotent ==
  (last.op = "deleteDocument" /\ last.index \in indices
     /\ last.cause.name # "ConnectionError") =>
    last.out = "return"

\* C5: updateDocument never raises; it returns true when the store accepted the
\* update and false for every failure of the update request.
C5_UpdateNeverRaises ==
  last.op = "updateDocument" =>
    /\ last.out = "return"
    /\ last.err = NoErr
    /\ last.rflag <=> (last.cause = NoErr)

C5_Witness ==
  /\ last.op = "updateDocument"
  /\ last.cause = ConnectionError
  /\ last.out = "return"
  /\ ~last.rflag

GetAllList(index, type) == getAllAnswer(index, type).rlist

\* C6: each createDocument that returns adds its mapping at the end of what
\* getAll returns for the (collection, type); so after N creations into an
\* empty one getAll returns the N mappings in the order of creation.
C6_CreationOrder ==
  [][\A index \in KnownNames, type \in Types :
       (/\ last'.op = "createDocument" /\ last'.out = "return" /\ docs' # docs
        /\ last'.index = index /\ last'.type = type) =>
         GetAllList(index, type)' = Append(GetAllList(index, type), last'.body)]_vars

InList(x, list) == \E i \in 1 .. Len(list) : list[i] = x

C8_EstablishProbesOnce ==
  (last.op = "establish" /\ last.host = "string" /\ last.port = "string") =>
    /\ last.requests = <<"info">>
    /\ \/ /\ last.cause = NoErr
          /\ last.out = "return"
          /\ last.rflag
       \/ /\ last.cause # NoErr
          /\ last.out = "throw"
          /\ ~last.rflag
          /\ last.err.text =
               <<"Cannot establish elasticsearch connection: ">> \o
                 <<last.cause.name, ": ">> \o last.cause.text

C8_Witness ==
  /\ last.op = "establish"
  /\ last.out = "throw"
  /\ last.cause = ConnectionError

\* w is one of the words of s: it has no space, and stands in s between spaces
\* or the ends of s
HasWord(s, w) ==
  /\ Len(w) > 0
  /\ \A k \in 1 .. Len(w) : w[k] # " "
  /\ \E i \in 1 .. Len(s) :
       /\ i + Len(w) - 1 <= Len(s)
       /\ SubSeq(s, i, i + Len(w) - 1) = w
       /\ i = 1 \/ s[i - 1] = " "
       /\ i + Len(w) - 1 = Len(s) \/ s[i + Len(w)] = " "

Words == {S_aa, <<"b", "b">>, S_aaa, S_cc}

\* the documents of the (collection, type) whose field has a word of the query
\* (for a query of one word: the query itself) as a complete word
Matching(index, type, field, query) ==
  {id \in AllIds :
     /\ docs[id] # NoDoc /\ docs[id].index = index /\ docs[id].type = type
     /\ \E w \in Words :
          /\ HasWord(query, w)
          /\ \E k \in 1 .. Len(docs[id].source[field].items) :
               HasWord(docs[id].source[field].items[k], w)}

RECURSIVE LeastFirst(_)
\* the mappings of the documents of S, the one of the least id first
LeastFirst(S) ==
  IF S = {} THEN <<>>
  ELSE LET m == CHOOSE x \in S : \A y \in S : x <= y
       IN <<docs[m].source>> \o LeastFirst(S \ {m})

IsListOf(list, S) == list = LeastFirst(S)

FirstPage(S) == {x \in S : Cardinality({y \in S : y < x}) < DefaultSize}

WriteResolved ==
  \/ last.op = "createDocument" /\ Len(last.requests) = 2
  \/ last.op = "updateDocument" /\ last.rflag
  \/ last.op = "deleteDocument" /\ last.out = "return"

\* C10, as stated: every mutating call whose write request has returned has
\* invoked the refresh operation after it.
C10_EveryMutationRefreshes ==
  (last.op \in Mutations /\ WriteResolved) =>
    /\ Len(last.requests) = 2
    /\ last.requests[2] = RefreshRequest

\* C10, amended: createDocument invokes the refresh operation after its index
\* request has returned and before it looks at the response, so also when it
\* fails with WriteFailed; updateDocument and deleteDocument invoke no refresh
\* operation: their one request carries the refresh flag.
C10_CreateRefreshesOthersFlag ==
  /\ (last.op = "createDocument" /\ last.err = FailedToCreate) =>
       last.requests = <<IndexRequest, RefreshRequest>>
  /\ (last.op = "createDocument" /\ last.out = "return") =>
       last.requests = <<IndexRequest, RefreshRequest>>
  /\ (last.op = "createDocument" /\ last.requests # <<>>) =>
       last.requests[1] = IndexRequest
  /\ last.op = "updateDocument" => last.requests = <<"update?refresh=true">>
  /\ last.op = "deleteDocument" => last.requests = <<"delete?refresh=true">>

C10_Witness ==
  /\ last.op = "createDocument"
  /\ last.err = FailedToCreate
  /\ last.requests = <<IndexRequest, RefreshRequest>>

====
